---- MODULE Spec2Model ----
(***************************************************************************)
(* Model of lib/exiftool-wrapper.js: metadata (promise + optional          *)
(* callback) and metadataSync, the argument list they hand to the          *)
(* exiftool child process, what they write to its standard input, and how  *)
(* they turn its stdout / stderr / exit code into a result or an error.    *)
(*                                                                         *)
(* Strings are TLA+ strings.  Standard output is a sequence of JSON        *)
(* lexemes ("[", "]", ",", and record literals), so that JSON.parse is a   *)
(* real parse of the accumulated text.  An optional JavaScript value       *)
(* (null / undefined or a value) is a sequence of length 0 or 1.           *)
(***************************************************************************)
EXTENDS Integers, Sequences, FiniteSets, TLC

VARIABLES
    req,          \* the options object passed to metadata / metadataSync
    pc,           \* position of the call: start, running, closed, spawned, done, crashed
    exifparams,   \* the local argument list `exifparams`
    spawnArgs,    \* argument lists handed to spawn / spawnSync, in order
    stdinWritten, \* buffers written to the child's stdin, in order
    stdinClosed,  \* stdin.end() was called (or spawnSync was given `input`)
    launch,       \* "none" before spawn, then "ok" or "fail" (the binary could not start)
    errored,      \* the child's 'error' event was delivered
    exifdata,     \* accumulated stdout lexemes (async)
    exiferr,      \* accumulated stderr text (async)
    exitCode,     \* code passed to the 'close' handler, optional
    etdata,       \* what spawnSync returned, optional
    promise,      \* state and value of the promise returned by metadata
    cbCalls,      \* invocations of options.callback, in order
    ret           \* outcome of metadataSync: pending, returned or thrown

vars == <<req, pc, exifparams, spawnArgs, stdinWritten, stdinClosed, launch,
          errored, exifdata, exiferr, exitCode, etdata, promise, cbCalls, ret>>

(***************************************************************************)
(* Bounds of the model.                                                    *)
(***************************************************************************)
MaxTags  == 2    \* longest tag list
MaxPaths == 2    \* longest array source
MaxBuf   == 3    \* longest Buffer source, in bytes
MaxN     == 3    \* largest small maxBufferSize tried
MaxOut   == 5    \* most stdout lexemes a child emits
MaxErr   == 1    \* most stderr chunks a child emits

DefaultMaxBufferSize == 10000

Tags     == {"Model", "-ThumbnailImage"}
Paths    == {"a.jpg", "b.jpg"}
Records  == {"a", "b"}                  \* lexemes standing for {...} records
OutChunks == {<<"[">>, <<"a">>, <<",", "b">>, <<"]">>}
ErrChunks == {"E"}
ExitCodes == {0, 1}
SpawnFailCode == 0 - 2                  \* 'close' after a failed spawn reports a negative errno

SeqsUpTo(S, n) == UNION {[1..k -> S] : k \in 0..n}
Range(s) == {s[i] : i \in 1..Len(s)}

(***************************************************************************)
(* JavaScript values.                                                      *)
(***************************************************************************)
Src(k, p, ps, b) == [kind |-> k, path |-> p, paths |-> ps, bytes |-> b]
SrcUndefined == Src("undefined", "", <<>>, <<>>)
SrcString(p) == Src("string", p, <<>>, <<>>)
SrcArray(ps) == Src("array", "", ps, <<>>)
SrcBuffer(b) == Src("buffer", "", <<>>, b)
SrcOther     == Src("other", "", <<>>, <<>>)   \* a truthy value of another type, e.g. 42 or {}

Bytes(n) == IF n = 0 THEN <<>> ELSE [i \in 1..n |-> i % 256]

\* !source
Falsy(source) ==
    \/ source.kind = "undefined"
    \/ source.kind = "string" /\ source.path = ""

ValidSource(source) == ~Falsy(source) /\ source.kind \in {"string", "array", "buffer"}

NoVal       == [t |-> "none", arr |-> <<>>, err |-> <<>>]
ObjVal(o)   == [t |-> "obj", arr |-> <<o>>, err |-> <<>>]
ArrVal(a)   == [t |-> "arr", arr |-> a, err |-> <<>>]
ErrVal(e)   == [t |-> "err", arr |-> <<>>, err |-> <<e>>]

MkError(n, m, c, se, so, cl) ==
    [name |-> n, message |-> m, code |-> c, stderr |-> se, stdout |-> so, commandlog |-> cl]

SourceTypeError  == MkError("TypeError", "\"source\" must be a string, [string] or Buffer",
                            <<>>, <<>>, <<>>, <<>>)
SyncUndefinedError == MkError("Error", "Undefined \"source\"", <<>>, <<>>, <<>>, <<>>)
LaunchError      == MkError("Error", "spawn exiftool ENOENT", <<>>, <<>>, <<>>, <<>>)

(***************************************************************************)
(* Argument construction.                                                  *)
(***************************************************************************)
\* tags => tags ? tags.map(tagname => `-${tagname}`) : []
prepareTags(tags) ==
    IF tags # <<>>
      THEN [i \in 1..Len(tags[1]) |-> "-" \o tags[1][i]]
      ELSE <<>>

\* the source branch: '-' for a Buffer, the path, or the paths; nothing for another type
sourceParams(source) ==
    CASE source.kind = "buffer" -> <<"-">>
      [] source.kind = "string" -> <<source.path>>
      [] source.kind = "array"  -> source.paths
      [] OTHER                  -> <<>>

\* configUnshift with the two unshift calls in the other order
configUnshift_swapped(params, config) ==
    IF config # <<>> THEN <<config[1], "-config">> \o params ELSE params

\* if (config !== null) { exifparams.unshift(`${config}`); exifparams.unshift(`-config`); }
configUnshift(params, config) ==
    IF config # <<>> THEN <<"-config">> \o (<<config[1]>> \o params) ELSE params

\* exifparams as metadata has built it when it calls spawn
metadataParams(r) ==
    configUnshift(prepareTags(r.tags) \o <<"-j">> \o sourceParams(r.source), r.config)

\* metadataSyncParams with the config block moved in front of spawnSync
metadataSyncParams_configFirst(r) ==
    configUnshift(prepareTags(r.tags) \o <<"-j">> \o sourceParams(r.source), r.config)

\* exifparams as metadataSync has built it when it calls spawnSync
metadataSyncParams(r) ==
    prepareTags(r.tags) \o <<"-j">> \o sourceParams(r.source)

(***************************************************************************)
(* Standard input.                                                         *)
(***************************************************************************)
\* Buffer.prototype.slice(0, end): a negative end counts from the end of the
\* buffer, and the end is clamped to [0, length]
BufferSlice(buf, end) ==
    LET stop == IF end < 0
                  THEN (IF Len(buf) + end < 0 THEN 0 ELSE Len(buf) + end)
                  ELSE (IF end > Len(buf) THEN Len(buf) ELSE end)
    IN  SubSeq(buf, 1, stop)

\* stdinBuf that never applies the limit
stdinBuf_unlimited(r) == r.source.bytes

\* useBufferLimit ? source.slice(0, maxBufferSize) : source
stdinBuf(r) ==
    IF r.useBufferLimit THEN BufferSlice(r.source.bytes, r.maxBufferSize) ELSE r.source.bytes

(***************************************************************************)
(* Parsing.                                                                *)
(***************************************************************************)
\* text is  [ ]  or  [ r , r , ... , r ]  with every r a record literal
IsArrayText(text) ==
    /\ Len(text) >= 2
    /\ text[1] = "[" /\ text[Len(text)] = "]"
    /\ LET inner == SubSeq(text, 2, Len(text) - 1)
       IN  \/ inner = <<>>
           \/ /\ Len(inner) % 2 = 1
              /\ \A i \in 1..Len(inner) :
                    IF i % 2 = 1 THEN inner[i] \in Records ELSE inner[i] = ","

ArrayElements(text) ==
    LET inner == SubSeq(text, 2, Len(text) - 1)
    IN  [i \in 1..((Len(inner) + 1) \div 2) |-> inner[2 * i - 1]]

\* JSON.parse(out): out is an optional text (spawnSync reports null streams when
\* the child could not start, and JSON.parse(null) is null).
\* ok = FALSE stands for the SyntaxError.
JSONParse(out) ==
    IF out = <<>> THEN [ok |-> TRUE, val |-> [t |-> "null", arr |-> <<>>, err |-> <<>>]]
    ELSE IF IsArrayText(out[1]) THEN [ok |-> TRUE, val |-> ArrVal(ArrayElements(out[1]))]
    ELSE IF Len(out[1]) = 1 /\ out[1][1] \in Records THEN [ok |-> TRUE, val |-> ObjVal(out[1][1])]
    ELSE [ok |-> FALSE, val |-> NoVal]

\* the try block up to the unwrapping: completes iff JSON.parse returns and
\* `parseddata.length` can be read (it cannot on null)
ParseCompletes(out) == JSONParse(out).ok /\ JSONParse(out).val.t # "null"

\* if (parseddata.length === 1) parseddata = parseddata[0]
Unwrap(val) ==
    IF val.t = "arr" /\ Len(val.arr) = 1 THEN ObjVal(val.arr[1]) ELSE val

\* the error built in the catch block of the 'close' handler
closeError(code, err, data) ==
    MkError("Error",
            IF Len(err) > 0
              THEN "Exiftool failed with exit code " \o ToString(code) \o ":\n " \o err
              ELSE "Could not parse exiftool output!",
            <<code>>, <<err>>, <<data>>, <<>>)

\* the error built in the catch block of metadataSync
syncParseError(etd) ==
    MkError("Error", "Could not parse data returned by ExifTool", <<>>, <<>>, <<>>,
            <<[stdout |-> etd.stdout, stderr |-> etd.stderr]>>)

\* the object spawnSync returns
EtData(failed, out, err, status) ==
    [error |-> failed, stdout |-> out, stderr |-> err, status |-> status]

(***************************************************************************)
(* Promise and callback.                                                   *)
(***************************************************************************)
Pending == [state |-> "pending", val |-> NoVal]

\* resolve / reject settle the promise once; later calls have no effect
Resolve(p, val) == IF p.state = "pending" THEN [state |-> "resolved", val |-> val] ELSE p
Reject(p, e)    == IF p.state = "pending" THEN [state |-> "rejected", val |-> ErrVal(e)] ELSE p

CbCall(error, result) == [err |-> error, res |-> result]

\* function tryCallback(cbfunction, error, result) { if (cbfunction) cbfunction(error, result) }
tryCallback(calls, cbfunction, error, result) ==
    IF cbfunction THEN Append(calls, CbCall(error, result)) ELSE calls

(***************************************************************************)
(* Requests and child behaviours the model is run on.                      *)
(***************************************************************************)
Request(f, src, tags, lim, n, cfg, cb) ==
    [form |-> f, source |-> src, tags |-> tags, useBufferLimit |-> lim,
     maxBufferSize |-> n, config |-> cfg, callback |-> cb]

Forms == {<<"async", FALSE>>, <<"async", TRUE>>, <<"sync", FALSE>>}
Configs == {<<>>, <<"my.cfg">>}

\* requests of the full call flow: every shape of source, defaults for the rest
FlowSources ==
    {SrcUndefined, SrcOther, SrcString("a.jpg"), SrcArray(<<"a.jpg", "b.jpg">>),
     SrcBuffer(Bytes(MaxBuf))}

FlowRequests ==
    {Request(f[1], src, <<<<"Model">>>>, TRUE, DefaultMaxBufferSize, cfg, f[2]) :
        f \in Forms, src \in FlowSources, cfg \in Configs}

\* requests of the invocation phase: every tag list, source, buffer and limit
InvokeSources ==
    {SrcUndefined, SrcOther, SrcString("")}
      \cup {SrcString(p) : p \in Paths}
      \cup {SrcArray(ps) : ps \in SeqsUpTo(Paths, MaxPaths)}
      \cup {SrcBuffer(Bytes(n)) : n \in 0..MaxBuf}

InvokeTags == {<<>>} \cup {<<ts>> : ts \in SeqsUpTo(Tags, MaxTags)}

InvokeRequests ==
    {Request(f[1], src, tags, lim, n, cfg, f[2]) :
        f \in Forms, src \in InvokeSources, tags \in InvokeTags, lim \in BOOLEAN,
        n \in (0..MaxN) \cup {DefaultMaxBufferSize}, cfg \in Configs}

RECURSIVE OutTexts(_)
\* the stdout texts a child can have emitted after at most k chunks
OutTexts(k) ==
    IF k = 0 THEN {<<>>}
    ELSE LET prev == OutTexts(k - 1)
         IN  prev \cup {tc[1] \o tc[2] :
                            tc \in {x \in prev \X OutChunks : Len(x[1]) + Len(x[2]) <= MaxOut}}

RECURSIVE ErrTexts(_)
ErrTexts(k) ==
    IF k = 0 THEN {""}
    ELSE LET prev == ErrTexts(k - 1) IN prev \cup {t \o c : t \in prev, c \in ErrChunks}

\* what spawnSync can return: a child that ran, or one that could not start
SyncResults ==
    {EtData(FALSE, <<t>>, <<e>>, <<c>>) :
        t \in OutTexts(MaxOut), e \in ErrTexts(MaxErr),
        c \in ExitCodes}
      \cup {EtData(TRUE, <<>>, <<>>, <<>>)}

InvokeResults ==
    {EtData(FALSE, <<<<"[", "a", "]">>>>, <<"">>, <<0>>),
     EtData(FALSE, <<<<"[">>>>, <<"E">>, <<1>>),
     EtData(TRUE, <<>>, <<>>, <<>>)}

(***************************************************************************)
(* State machine.                                                          *)
(***************************************************************************)
InitWith(requests) ==
    /\ req \in requests
    /\ pc = "start"
    /\ exifparams = <<>>
    /\ spawnArgs = <<>>
    /\ stdinWritten = <<>>
    /\ stdinClosed = FALSE
    /\ launch = "none"
    /\ errored = FALSE
    /\ exifdata = <<>>
    /\ exiferr = ""
    /\ exitCode = <<>>
    /\ etdata = <<>>
    /\ promise = Pending
    /\ cbCalls = <<>>
    /\ ret = [state |-> "pending", val |-> NoVal]

Init == InitWith(FlowRequests)

InitInvoke == InitWith(InvokeRequests)

\* metadata: the process.nextTick callback, lines 26-95.  cbThrows: the
\* caller's callback throws when invoked.  l: whether the binary starts.
Tick ==
    /\ req.form = "async"
    /\ pc = "start"
    /\ \E cbThrows \in BOOLEAN, l \in {"ok", "fail"} :
        IF Falsy(req.source)
          THEN /\ cbCalls' = tryCallback(cbCalls, req.callback, <<SourceTypeError>>, NoVal)
               /\ IF req.callback /\ cbThrows
                    THEN pc' = "crashed" /\ promise' = promise
                    ELSE pc' = "done" /\ promise' = Reject(promise, SourceTypeError)
               /\ UNCHANGED <<exifparams, spawnArgs, stdinWritten, stdinClosed, launch>>
          ELSE LET mismatch == ~ValidSource(req.source)
                   usingBuffer == req.source.kind = "buffer"
               IN  IF mismatch /\ req.callback /\ cbThrows
                     THEN /\ cbCalls' = tryCallback(cbCalls, req.callback,
                                                    <<SourceTypeError>>, NoVal)
                          /\ exifparams' = prepareTags(req.tags) \o <<"-j">>
                          /\ pc' = "crashed"
                          /\ UNCHANGED <<promise, spawnArgs, stdinWritten, stdinClosed,
                                         launch>>
                     ELSE /\ cbCalls' = IF mismatch
                                          THEN tryCallback(cbCalls, req.callback,
                                                           <<SourceTypeError>>, NoVal)
                                          ELSE cbCalls
                          /\ promise' = IF mismatch THEN Reject(promise, SourceTypeError)
                                                    ELSE promise
                          /\ exifparams' = metadataParams(req)
                          /\ spawnArgs' = Append(spawnArgs, exifparams')
                          /\ launch' = l
                          /\ stdinWritten' = IF usingBuffer
                                               THEN Append(stdinWritten, stdinBuf(req))
                                               ELSE stdinWritten
                          /\ stdinClosed' = usingBuffer
                          /\ pc' = "running"
    /\ UNCHANGED <<req, errored, exifdata, exiferr, exitCode, etdata, ret>>

\* exif.stdout.on('data', data => { exifdata += data })
StdoutData(data) ==
    /\ pc = "running" /\ launch = "ok"
    /\ Len(exifdata) + Len(data) <= MaxOut
    /\ exifdata' = exifdata \o data
    /\ UNCHANGED <<req, pc, exifparams, spawnArgs, stdinWritten, stdinClosed, launch,
                   errored, exiferr, exitCode, etdata, promise, cbCalls, ret>>

\* exif.stderr.on('data', data => { exiferr += data })
StderrData(data) ==
    /\ pc = "running" /\ launch = "ok"
    /\ Len(exiferr) < MaxErr
    /\ exiferr' = exiferr \o data
    /\ UNCHANGED <<req, pc, exifparams, spawnArgs, stdinWritten, stdinClosed, launch,
                   errored, exifdata, exitCode, etdata, promise, cbCalls, ret>>

\* exif.on('error', reject): the child could not be spawned
ErrorEvent ==
    /\ pc = "running" /\ launch = "fail" /\ ~errored
    /\ errored' = TRUE
    /\ promise' = Reject(promise, LaunchError)
    /\ UNCHANGED <<req, pc, exifparams, spawnArgs, stdinWritten, stdinClosed, launch,
                   exifdata, exiferr, exitCode, etdata, cbCalls, ret>>

\* exif.on('close', code => { ... }), lines 72-93.  A child that ran closes
\* with its exit code; after a failed spawn 'close' follows 'error'.
\* throws1 / throws2: the callback throws on its first / second invocation here.
CloseEvent(code, throws1, throws2) ==
    /\ pc = "running"
    /\ \/ launch = "ok" /\ code \in ExitCodes
       \/ launch = "fail" /\ errored /\ code = SpawnFailCode
    /\ exitCode' = <<code>>
    /\ LET parsed   == ParseCompletes(<<exifdata>>)
           result   == Unwrap(JSONParse(<<exifdata>>).val)
           calls1   == IF parsed THEN tryCallback(cbCalls, req.callback, <<>>, result)
                                 ELSE cbCalls
           caught   == ~parsed \/ (req.callback /\ throws1)
           error    == closeError(code, exiferr, exifdata)
           calls2   == tryCallback(calls1, req.callback, <<error>>, NoVal)
       IN  IF ~caught
             THEN /\ cbCalls' = calls1
                  /\ promise' = Resolve(promise, result)
                  /\ pc' = "closed"
             ELSE /\ cbCalls' = calls2
                  /\ IF req.callback /\ throws2
                       THEN pc' = "crashed" /\ promise' = promise
                       ELSE pc' = "closed" /\ promise' = Reject(promise, error)
    /\ UNCHANGED <<req, exifparams, spawnArgs, stdinWritten, stdinClosed, launch, errored,
                   exifdata, exiferr, etdata, ret>>

\* metadataSync, lines 112-133: validation, argument list, spawnSync.
\* etd is what spawnSync returns.
SyncSpawn(etd) ==
    /\ req.form = "sync"
    /\ pc = "start"
    /\ IF Falsy(req.source)
         THEN /\ ret' = [state |-> "thrown", val |-> ErrVal(SyncUndefinedError)]
              /\ pc' = "done"
              /\ UNCHANGED <<exifparams, spawnArgs, stdinWritten, stdinClosed, launch, etdata>>
         ELSE IF ~ValidSource(req.source)
         THEN /\ ret' = [state |-> "thrown", val |-> ErrVal(SourceTypeError)]
              /\ pc' = "done"
              /\ exifparams' = prepareTags(req.tags) \o <<"-j">>
              /\ UNCHANGED <<spawnArgs, stdinWritten, stdinClosed, launch, etdata>>
         ELSE /\ exifparams' = metadataSyncParams(req)
              /\ spawnArgs' = Append(spawnArgs, exifparams')
              /\ stdinWritten' = IF req.source.kind = "buffer"
                                   THEN Append(stdinWritten, stdinBuf(req))
                                   ELSE stdinWritten
              /\ stdinClosed' = (req.source.kind = "buffer")
              /\ launch' = IF etd.error THEN "fail" ELSE "ok"
              /\ etdata' = <<etd>>
              /\ pc' = "spawned"
              /\ ret' = ret
    /\ UNCHANGED <<req, errored, exifdata, exiferr, exitCode, promise, cbCalls>>

\* metadataSync, lines 135-153: the config block, then parse and return or throw
SyncReturn ==
    /\ req.form = "sync"
    /\ pc = "spawned"
    /\ exifparams' = configUnshift(exifparams, req.config)
    /\ ret' = IF ParseCompletes(etdata[1].stdout)
                THEN [state |-> "returned", val |-> Unwrap(JSONParse(etdata[1].stdout).val)]
                ELSE [state |-> "thrown", val |-> ErrVal(syncParseError(etdata[1]))]
    /\ pc' = "done"
    /\ UNCHANGED <<req, spawnArgs, stdinWritten, stdinClosed, launch, errored, exifdata,
                   exiferr, exitCode, etdata, promise, cbCalls>>

Next ==
    \/ Tick
    \/ \E data \in OutChunks : StdoutData(data)
    \/ \E data \in ErrChunks : StderrData(data)
    \/ ErrorEvent
    \/ \E code \in ExitCodes \cup {SpawnFailCode}, throws1, throws2 \in BOOLEAN :
          CloseEvent(code, throws1, throws2)
    \/ \E etd \in SyncResults : SyncSpawn(etd)
    \/ SyncReturn

Spec == Init /\ [][Next]_vars

\* the invocation phase alone, over the wide request set: the child's output
\* plays no part in what it is started with
NextInvoke ==
    \/ Tick
    \/ \E etd \in InvokeResults : SyncSpawn(etd)
    \/ SyncReturn

SpecInvoke == InitInvoke /\ [][NextInvoke]_vars

(***************************************************************************)
(* Properties.                                                             *)
(***************************************************************************)
\* the error the async call ended with: the promise's rejection, or, when the
\* callback threw out of the handler before reject, the error it was handed
AsyncError ==
    IF promise.state = "rejected" THEN promise.val.err
    ELSE IF cbCalls # <<>> THEN cbCalls[Len(cbCalls)].err
    ELSE <<>>

\* the result the specification gives for a stdout text that is an array
ArrayResult(text) ==
    IF Len(ArrayElements(text)) = 1 THEN ObjVal(ArrayElements(text)[1])
                                    ELSE ArrVal(ArrayElements(text))

\* the argument list the specification gives for a request
ExpectedArgs(r) ==
    (IF r.config = <<>> THEN <<>> ELSE <<"-config", r.config[1]>>)
      \o (IF r.tags = <<>> THEN <<>>
          ELSE [i \in 1..Len(r.tags[1]) |-> "-" \o r.tags[1][i]])
      \o <<"-j">>
      \o (IF r.source.kind = "buffer" THEN <<"-">>
          ELSE IF r.source.kind = "string" THEN <<r.source.path>>
          ELSE r.source.paths)

ParseFailureMessages ==
    {"Could not parse exiftool output!", "Could not parse data returned by ExifTool"}
      \cup {"Exiftool failed with exit code " \o ToString(c) \o ":\n " \o e :
              c \in ExitCodes \cup {SpawnFailCode}, e \in ErrTexts(MaxErr + 1)}

\* C1: a request whose source is missing, falsy or of another type never
\* spawns a process, and once the call is over it has failed with the
\* validation error.
C1_NoSpawnOnInvalidSource ==
    ~ValidSource(req.source) =>
        /\ spawnArgs = <<>>
        /\ (req.form = "async" /\ pc = "done") => promise.state = "rejected"
        /\ (req.form = "sync" /\ pc = "done") => ret.state = "thrown"

\* C2: for a valid request, once the process has ended with a stdout that
\* parses as an array, the call has succeeded, whatever the exit code, with
\* the only element of a one-element array and with the whole array otherwise.
C2_ArrayOutputSucceeds ==
    /\ (req.form = "async" /\ ValidSource(req.source) /\ exitCode # <<>>
          /\ IsArrayText(exifdata)) =>
          promise = [state |-> "resolved", val |-> ArrayResult(exifdata)]
    /\ (req.form = "sync" /\ pc = "done" /\ etdata # <<>> /\ etdata[1].stdout # <<>>
          /\ IsArrayText(etdata[1].stdout[1])) =>
          ret = [state |-> "returned", val |-> ArrayResult(etdata[1].stdout[1])]

\* C3: in the async form the argument list of a valid request is the config
\* pair (when set), the tags each prefixed with '-', '-j', then the source
\* arguments; the config pair is at the very front.
C3_AsyncArgumentList ==
    (req.form = "async" /\ ValidSource(req.source) /\ pc # "start") =>
        /\ spawnArgs = <<ExpectedArgs(req)>>
        /\ req.config # <<>> =>
              spawnArgs[1][1] = "-config" /\ spawnArgs[1][2] = req.config[1]

C3_Witness ==
    /\ req.form = "async" /\ pc = "running"
    /\ req.config = <<"my.cfg">>
    /\ req.tags = << <<"Model", "-ThumbnailImage">> >>
    /\ spawnArgs = << <<"-config", "my.cfg", "-Model", "--ThumbnailImage", "-j",
                        "a.jpg", "b.jpg">> >>

\* C4: for a valid request whose process ran, once it has ended with a
\* stdout that cannot be parsed, the call has failed with an error carrying the exit code, stdout and stderr,
\* whose message embeds the exit code and stderr when stderr is non-empty
\* and is the generic could-not-parse message otherwise.
C4_ParseFailureError ==
    /\ (req.form = "async" /\ ValidSource(req.source) /\ launch = "ok"
          /\ exitCode # <<>> /\ ~JSONParse(<<exifdata>>).ok) =>
          /\ AsyncError # <<>>
          /\ AsyncError[1].code = exitCode
          /\ AsyncError[1].stdout = <<exifdata>>
          /\ AsyncError[1].stderr = <<exiferr>>
          /\ AsyncError[1].message =
                IF Len(exiferr) > 0
                  THEN "Exiftool failed with exit code " \o ToString(exitCode[1])
                          \o ":\n " \o exiferr
                  ELSE "Could not parse exiftool output!"
    /\ (req.form = "sync" /\ pc = "done" /\ etdata # <<>> /\ ~etdata[1].error
          /\ ~JSONParse(etdata[1].stdout).ok) =>
          /\ ret.state = "thrown"
          /\ ret.val.err[1].code = etdata[1].status
          /\ ret.val.err[1].stdout = etdata[1].stdout
          /\ ret.val.err[1].stderr = etdata[1].stderr
          /\ Len(etdata[1].stderr[1]) > 0 =>
                ret.val.err[1].message =
                    "Exiftool failed with exit code " \o ToString(etdata[1].status[1])
                      \o ":\n " \o etdata[1].stderr[1]

\* C5: when the process cannot be started, the call fails with the launch
\* error itself and no parse-failure error is produced or delivered.
C5_LaunchErrorOnly ==
    launch = "fail" =>
        /\ \A i \in 1..Len(cbCalls) :
              cbCalls[i].err = <<>> \/ cbCalls[i].err[1].message \notin ParseFailureMessages
        /\ (req.form = "async" /\ pc = "closed" /\ ValidSource(req.source)) =>
              promise = [state |-> "rejected", val |-> ErrVal(LaunchError)]
        /\ (req.form = "sync" /\ pc = "done") =>
              ret = [state |-> "thrown", val |-> ErrVal(LaunchError)]

C7_FailureOnBothChannels ==
    (req.form = "async" /\ req.callback /\ pc \in {"done", "closed"}) =>
        /\ promise.state = "rejected" =>
              \E i \in 1..Len(cbCalls) : cbCalls[i].err = promise.val.err
        /\ \A i \in 1..Len(cbCalls) :
              cbCalls[i].err # <<>> =>
                  promise.state = "rejected" /\ promise.val.err = cbCalls[i].err

\* C8: for a valid request the synchronous form starts the tool with the
\* argument list the asynchronous form builds for the same request.
C8_SyncArgsEqualAsyncArgs ==
    (req.form = "sync" /\ ValidSource(req.source) /\ spawnArgs # <<>>) =>
        spawnArgs[1] = metadataParams(req)

\* C9: in the synchronous form with a config path, the process is started
\* before the config pair is prepended: the arguments it received are those
\* of the same request without a config path and hold neither the flag nor
\* the path, the pair is on the local list only once the call is over, and
\* the outcome is decided by the child's output alone.
C9_SyncConfigAfterSpawn ==
    (req.form = "sync" /\ req.config # <<>> /\ spawnArgs # <<>>) =>
        /\ spawnArgs = <<ExpectedArgs([req EXCEPT !.config = <<>>])>>
        /\ "-config" \notin Range(spawnArgs[1])
        /\ req.config[1] \notin Range(spawnArgs[1])
        /\ pc = "spawned" => exifparams = spawnArgs[1]
        /\ pc = "done" =>
              /\ exifparams = <<"-config", req.config[1]>> \o spawnArgs[1]
              /\ ret = IF ParseCompletes(etdata[1].stdout)
                         THEN [state |-> "returned",
                               val |-> Unwrap(JSONParse(etdata[1].stdout).val)]
                         ELSE [state |-> "thrown",
                               val |-> ErrVal(syncParseError(etdata[1]))]

C9_Witness ==
    /\ req.form = "sync" /\ pc = "done"
    /\ req.config = <<"my.cfg">>
    /\ spawnArgs = << <<"-Model", "-j", "a.jpg">> >>
    /\ exifparams = <<"-config", "my.cfg", "-Model", "-j", "a.jpg">>
    /\ ret = [state |-> "returned", val |-> ObjVal("a")]

\* C10: in the async form the callback is invoked at most once, and once the
\* call has run to its end its outcome agrees with the promise: (null, result) only if
\* the promise resolved with that result, an error only if the promise
\* rejected with that error.
C10_CallbackOnceAndAgrees ==
    req.form = "async" =>
        /\ Len(cbCalls) <= 1
        /\ pc \in {"done", "closed"} =>
              \A i \in 1..Len(cbCalls) :
                  IF cbCalls[i].err = <<>>
                    THEN promise = [state |-> "resolved", val |-> cbCalls[i].res]
                    ELSE promise = [state |-> "rejected",
                                    val |-> ErrVal(cbCalls[i].err[1])]

====
